---------------------------- MODULE Spec2Model ----------------------------
(***************************************************************************)
(* Model of the training helpers of the milankalkenings package:           *)
(*   train_test.py     Trainer.train_batch, Trainer.train                  *)
(*   deep_learning.py  Trainer.train_batch, Trainer.lrrt,                  *)
(*                     Trainer.train_n_epochs_early_stop_initial_lrrt      *)
(*   data_handling.py  ImageClsDataset                                     *)
(* A module (network) is a record: the number of optimizer steps applied   *)
(* to it, whether its pretrained layers are frozen, the freeze method last *)
(* called on it, and its weights, an abstract value that decides the       *)
(* losses an evaluation of it yields (the loaders' data being fixed).  A   *)
(* checkpoint file is <<>> when it does not exist and <<module>> when it   *)
(* holds a module.  An optional integer is <<>> for None and <<m>> for the *)
(* integer m.                                                              *)
(***************************************************************************)
EXTENDS Integers, Sequences, FiniteSets, TLC

VARIABLES
    pc,                             \* position of the running call
    \* ---- names the two trainers share
    checkpoint_running, checkpoint_final, checkpoint_initial, freeze_pretrained,
    module, epoch, loss_val_last,
    returned,                       \* <<>> until the call returns, then <<its result>>
    moduleHist,                     \* history: the module evaluated initially and after every epoch
    \* ---- train_test.py: Trainer.train
    n_epochs, lrs, early_stopping_max_violations,
    optimizer, early_stopping_violations, losses_train, losses_val,
    stepLrs,                        \* history: learning rates of the param groups at each epoch's updates
    \* ---- deep_learning.py: Trainer.lrrt
    lrrt_slope_desired, lrrt_max_decays,
    decay_it, candidate_lrs, lr_best_total, slope_best_total, slope_desired_found,
    lrrt_result,                    \* <<>> until lrrt returns, then <<its result>>
    tried,                          \* history: every candidate tried, in the order tried
    lrrt_module,                    \* lrrt's local module: the last one loaded and trained
    caller,                         \* where lrrt returns to
    \* ---- deep_learning.py: Trainer.train_n_epochs_early_stop_initial_lrrt
    max_epochs, es_max_violations, es_violations, lr_best,
    valHist,                        \* history: the validation losses evaluated, in order
    \* ---- train_batch of either trainer, called on its own
    trainer,                        \* the file whose Trainer is called
    callLog,                        \* history: the freeze argument of every call
    \* ---- data_handling.py: ImageClsDataset
    ds_len, test_len, val_size,     \* len of the train/val and of the test dataset, val_size
    train_len, val_len,
    train_dataset, val_dataset, test_dataset,
    transform,                      \* the transform attribute of each underlying dataset object
    loaders,
    lastPass                        \* history: the loader last iterated and what it yielded

sharedVars == <<checkpoint_running, checkpoint_final, checkpoint_initial, freeze_pretrained,
                module, epoch, loss_val_last, returned, moduleHist>>

trainVars == <<n_epochs, lrs, early_stopping_max_violations,
               optimizer, early_stopping_violations, losses_train, losses_val, stepLrs>>

lrrtVars == <<lrrt_slope_desired, lrrt_max_decays, decay_it, candidate_lrs,
              lr_best_total, slope_best_total, slope_desired_found, lrrt_result,
              tried, lrrt_module, caller>>

esVars == <<max_epochs, es_max_violations, es_violations, lr_best, valHist>>

batchVars == <<trainer, callLog>>

dataVars == <<ds_len, test_len, val_size, train_len, val_len,
              train_dataset, val_dataset, test_dataset, transform, loaders, lastPass>>

vars == <<pc, sharedVars, trainVars, lrrtVars, esVars, batchVars, dataVars>>

-----------------------------------------------------------------------------
(* Bounds of the model *)

MaxEpochs == 3          \* n_epochs ranges over 0..MaxEpochs
MaxLrs == 3             \* len(lrs) ranges over 0..MaxLrs
MaxViolations == 2      \* early_stopping_max_violations ranges over None, 1..MaxViolations
MaxLoss == 2            \* the weights, and with them the epoch validation loss, range over 0..MaxLoss
LenLoaderTrain == 2     \* len(self.loader_train): batches per epoch
MaxCalls == 4           \* train_batch is called up to MaxCalls times in a row
MaxLen == 4             \* len of the train/val dataset ranges over 0..MaxLen
MaxTestLen == 2         \* len of the test dataset ranges over 0..MaxTestLen
MaxDen == 4             \* val_size ranges over the fractions k/d, 0 <= k <= d <= MaxDen
MaxDecays == 1          \* lrrt_max_decays ranges over 0..MaxDecays
MaxEpochsLrrt == 2      \* max_epochs of train_n_epochs_early_stop_initial_lrrt ranges over 0..MaxEpochsLrrt

Weights == 0..MaxLoss
LearningRates == {1, 2}

None == <<>>
Some(x) == <<x>>

NoFile == <<>>

RECURSIVE SeqsUpTo(_, _)
SeqsUpTo(S, n) ==
    IF n = 0 THEN {<<>>}
    ELSE LET shorter == SeqsUpTo(S, n - 1)
         IN  shorter \cup {Append(s, x) : s \in {t \in shorter : Len(t) = n - 1}, x \in S}

-----------------------------------------------------------------------------
(* utils: save_secure / load_secure, and the Module the trainers act on *)

save_secure(m) == <<m>>

load_secure(file) == file[1]

FileExists(file) == file # NoFile

\* modules.Module.freeze_pretrained
TT_freeze_pretrained(m) == [m EXCEPT !.frozen = TRUE]

NewModule(w) ==
    [steps |-> 0, frozen |-> FALSE, called |-> "none", weights |-> w, origin |-> "this"]

StaleModule ==
    [steps |-> 0, frozen |-> FALSE, called |-> "none", weights |-> 0, origin |-> "earlier run"]

\* The module after a call of its method `method` had the effect `after`.
Called(after, method) == [after EXCEPT !.called = method]

\* The epoch loss of a module on a loader: decided by the weights, different per loader.
LossOn(loader, m) == IF loader = "val" THEN m.weights ELSE 2 * m.weights + 1

-----------------------------------------------------------------------------
(* train_test.py *)

\* Trainer.train_batch, lines 75-85: one update step on one batch.
TT_train_batch(m, freeze) ==
    LET f == IF freeze THEN Called(TT_freeze_pretrained(m), "freeze_pretrained")
                       ELSE Called(TT_freeze_pretrained(m), "freeze_pretrained")
    IN  [f EXCEPT !.steps = @ + 1]

\* Trainer.train_n_batches, lines 133-140: the loop over the loader, left when
\* train_iter is n_batches or the loader is used up.
RECURSIVE TT_train_loop(_, _, _, _)
TT_train_loop(m, train_iter, n_batches, freeze) ==
    IF train_iter = LenLoaderTrain \/ train_iter = n_batches THEN m
    ELSE TT_train_loop(TT_train_batch(m, freeze), train_iter + 1, n_batches, freeze)

\* Trainer.train_n_batches, lines 132-141, on loader_train.
TT_train_n_batches(m, n_batches, freeze) == TT_train_loop(m, 0, n_batches, freeze)

\* Mutant: the two epoch losses returned in the wrong order.
TT_losses_epoch_eval_swapped(m) == <<LossOn("val", m), LossOn("train", m)>>

\* Trainer.losses_epoch_eval, lines 192-194.
TT_losses_epoch_eval(m) == <<LossOn("train", m), LossOn("val", m)>>

\* line 269: the optimizer is built once, with a single parameter group.
NewOptimizer(lr) == [param_groups |-> <<[lr |-> lr]>>]

\* Mutant: every epoch runs with the first learning rate.
LrOfEpoch_first(ls, e) == ls[1]

\* lines 280-281: for pg in optimizer.param_groups: pg["lr"] = lrs[epoch - 1]
LrOfEpoch(ls, e) == ls[e]

SetLr(opt, lr) == [opt EXCEPT !.param_groups = [i \in DOMAIN @ |-> [@[i] EXCEPT !.lr = lr]]]

\* Mutant: range(1, n_epochs), one epoch short.
LoopContinues_short(e, n) == e < n - 1

\* line 276: for epoch in range(1, n_epochs + 1); e epochs are behind us.
LoopContinues(e, n) == e < n

\* Mutant: an equal validation loss counts as an improvement.
Improved_or_equal(loss_val, last) == loss_val <= last

\* line 297
Improved(loss_val, last) == loss_val < last

\* line 309: early_stopping_violations == early_stopping_max_violations
EarlyStopHit(violations, max_violations) ==
    max_violations # None /\ violations = max_violations[1]

\* The variables of a trainer that the specification at hand does not run.
TrainUnused ==
    /\ n_epochs = None /\ lrs = None /\ early_stopping_max_violations = None
    /\ optimizer = None /\ early_stopping_violations = None
    /\ losses_train = None /\ losses_val = None /\ stepLrs = None

LrrtUnused ==
    /\ lrrt_slope_desired = None /\ lrrt_max_decays = None /\ decay_it = None
    /\ candidate_lrs = None /\ lr_best_total = None /\ slope_best_total = None
    /\ slope_desired_found = None /\ lrrt_result = None /\ tried = None
    /\ lrrt_module = None /\ caller = None

EsUnused ==
    /\ max_epochs = None /\ es_max_violations = None /\ es_violations = None
    /\ lr_best = None /\ valHist = None

BatchUnused == trainer = None /\ callLog = None

DataUnused ==
    /\ ds_len = None /\ test_len = None /\ val_size = None
    /\ train_len = None /\ val_len = None
    /\ train_dataset = None /\ val_dataset = None /\ test_dataset = None
    /\ transform = None /\ loaders = None /\ lastPass = None

TrainInit ==
    /\ pc = "train"
    /\ n_epochs \in 0..MaxEpochs
    /\ lrs \in SeqsUpTo(LearningRates, MaxLrs)
    /\ early_stopping_max_violations \in {None} \cup {Some(m) : m \in 1..MaxViolations}
    /\ freeze_pretrained \in BOOLEAN
    \* Trainer.__init__, line 30: save_secure(module, checkpoint_running);
    \* checkpoint_final is not written by the constructor.
    /\ \E w \in Weights : checkpoint_running = save_secure(NewModule(w))
    /\ checkpoint_final \in {NoFile, save_secure(StaleModule)}
    /\ checkpoint_initial = None
    /\ module = None
    /\ optimizer = None
    /\ epoch = 0
    /\ early_stopping_violations = 0
    /\ loss_val_last = None
    /\ losses_train = <<>>
    /\ losses_val = <<>>
    /\ returned = None
    /\ stepLrs = <<>>
    /\ moduleHist = <<>>
    /\ LrrtUnused
    /\ EsUnused
    /\ BatchUnused
    /\ DataUnused

\* Trainer.train, lines 262-274: everything before the epoch loop.
TrainStart ==
    /\ pc = "train"
    /\ IF Len(lrs) = 0
       THEN /\ pc' = "IndexError"
            /\ module' = load_secure(checkpoint_running)
            /\ UNCHANGED <<optimizer, loss_val_last, losses_train, losses_val, moduleHist>>
       ELSE LET m == load_secure(checkpoint_running)
                ev == TT_losses_epoch_eval(m)
            IN  /\ module' = m
                /\ optimizer' = NewOptimizer(lrs[1])
                /\ loss_val_last' = ev[2]
                /\ losses_train' = Append(losses_train, ev[1])
                /\ losses_val' = Append(losses_val, ev[2])
                /\ moduleHist' = Append(moduleHist, m)
                /\ pc' = "loop"
    /\ UNCHANGED <<n_epochs, lrs, early_stopping_max_violations, freeze_pretrained,
                   checkpoint_running, checkpoint_final, checkpoint_initial, epoch,
                   early_stopping_violations, returned, stepLrs, lrrtVars, esVars>>
    /\ UNCHANGED <<batchVars, dataVars>>

\* The module after an epoch of training: the steps are those of train_n_batches,
\* the weights are whatever the updates produced.
Trained(m, w) ==
    LET t == TT_train_n_batches(m, LenLoaderTrain, freeze_pretrained)
    IN  IF t.steps = m.steps THEN t ELSE [t EXCEPT !.weights = w]

\* lines 298 and 306: save_secure(module=module, file=self.checkpoint_running), in
\* the branch of an improvement and in the branch of a violation; old is the file
\* before the epoch.
TT_RunningCheckpoint(improved, m, old) == save_secure(m)

\* Trainer.train, lines 276-312: one iteration of the epoch loop.
TrainEpoch ==
    /\ pc = "loop"
    /\ LoopContinues(epoch, n_epochs)
    /\ epoch' = epoch + 1
    /\ IF Len(lrs) < epoch + 1
       THEN /\ pc' = "IndexError"
            /\ UNCHANGED <<checkpoint_running, checkpoint_final, module, optimizer,
                           early_stopping_violations, loss_val_last, losses_train,
                           losses_val, stepLrs, moduleHist>>
       ELSE \E w \in Weights :
            LET opt == SetLr(optimizer, LrOfEpoch(lrs, epoch + 1))
                m == Trained(module, w)
                ev == TT_losses_epoch_eval(m)
                loss_train == ev[1]
                loss_val == ev[2]
            IN  /\ optimizer' = opt
                /\ module' = m
                /\ stepLrs' = Append(stepLrs, [i \in DOMAIN opt.param_groups |-> opt.param_groups[i].lr])
                /\ moduleHist' = Append(moduleHist, m)
                /\ losses_train' = Append(losses_train, loss_train)
                /\ losses_val' = Append(losses_val, loss_val)
                /\ checkpoint_running' =
                       TT_RunningCheckpoint(Improved(loss_val, loss_val_last), m,
                                            checkpoint_running)
                /\ IF Improved(loss_val, loss_val_last)
                   THEN /\ checkpoint_final' = save_secure(m)
                        /\ loss_val_last' = loss_val
                        /\ early_stopping_violations' = 0
                        /\ pc' = "loop"
                   ELSE /\ early_stopping_violations' = early_stopping_violations + 1
                        /\ UNCHANGED <<checkpoint_final, loss_val_last>>
                        /\ pc' = IF EarlyStopHit(early_stopping_violations + 1,
                                                 early_stopping_max_violations)
                                 THEN "break" ELSE "loop"
    /\ UNCHANGED <<n_epochs, lrs, early_stopping_max_violations, freeze_pretrained, returned,
                   checkpoint_initial, lrrtVars, esVars>>
    /\ UNCHANGED <<batchVars, dataVars>>

\* Trainer.train, line 313: return load_secure(checkpoint_final), losses_train, losses_val
TrainReturn ==
    /\ \/ pc = "break"
       \/ pc = "loop" /\ ~LoopContinues(epoch, n_epochs)
    /\ IF FileExists(checkpoint_final)
       THEN /\ returned' = Some([module |-> load_secure(checkpoint_final),
                                 losses_train |-> losses_train,
                                 losses_val |-> losses_val])
            /\ pc' = "done"
       ELSE /\ pc' = "FileNotFoundError"
            /\ UNCHANGED returned
    /\ UNCHANGED <<n_epochs, lrs, early_stopping_max_violations, freeze_pretrained,
                   checkpoint_running, checkpoint_final, checkpoint_initial, module,
                   optimizer, epoch,
                   early_stopping_violations, loss_val_last, losses_train, losses_val,
                   stepLrs, moduleHist, lrrtVars, esVars>>
    /\ UNCHANGED <<batchVars, dataVars>>

TrainNext == TrainStart \/ TrainEpoch \/ TrainReturn

SpecTrain == TrainInit /\ [][TrainNext]_vars

-----------------------------------------------------------------------------
(* deep_learning.py *)

\* Module.freeze_pretrained_layers / unfreeze_pretrained_layers, lines 14-20.
ModuleFreeze(m) == [m EXCEPT !.frozen = TRUE]

ModuleUnfreeze(m) == [m EXCEPT !.frozen = FALSE]

\* np.inf, lines 162-163: above every slope and every learning rate.
Inf == 1000000

\* A loss slope fitted by np.polyfit: negative, flat or positive.
Slopes == {-1, 0, 1}

\* The borders lrrt_slope_desired is tried with: TrainerSetup's 0, which a falling
\* loss passes, and a border every slope but a rising one passes.
DesiredSlopes == {0, 1}

\* A learning rate is a fraction num/den of 1e-6.
Lr(num, den) == [num |-> num, den |-> den]

\* TrainerSetup, lines 55-59.
lrrt_n_batches == 500
lrrt_slope_desired_default == 0
lrrt_decay == Lr(9, 10)
lrrt_initial_candidates == <<Lr(1000, 1), Lr(100, 1), Lr(1, 1)>>

\* Trainer.train_batch, lines 89-100.
DL_train_batch(m, freeze_pretrained_layers) ==
    LET f == IF freeze_pretrained_layers
             THEN Called(ModuleFreeze(m), "freeze_pretrained_layers")
             ELSE Called(ModuleUnfreeze(m), "unfreeze_pretrained_layers")
    IN  [f EXCEPT !.steps = @ + 1]

\* Trainer.train_n_batches, lines 102-115: the loop over the loader, left at n_batches.
RECURSIVE DL_train_loop(_, _, _, _)
DL_train_loop(m, train_iter, n_batches, freeze_pretrained_layers) ==
    IF train_iter = LenLoaderTrain \/ train_iter = n_batches THEN m
    ELSE DL_train_loop(DL_train_batch(m, freeze_pretrained_layers), train_iter + 1,
                       n_batches, freeze_pretrained_layers)

\* line 114: np.polyfit raises when no loss was recorded.
TypeError == [raised |-> "TypeError"]

\* Trainer.train_n_batches, lines 102-115: the module after the loop, or the
\* exception of line 114.
DL_train_n_batches(m, n_batches, freeze_pretrained_layers) ==
    LET looped == DL_train_loop(m, 0, n_batches, freeze_pretrained_layers)
    IN  IF looped.steps = m.steps THEN TypeError ELSE looped

\* Trainer.losses_epoch_eval, lines 128-131.
DL_losses_epoch_eval(m) == <<LossOn("train", m), LossOn("val", m)>>

\* Mutant: argmin returning the last of equal minima.
ArgMin_last(slopes) ==
    CHOOSE i \in DOMAIN slopes :
        /\ \A j \in DOMAIN slopes : slopes[i] <= slopes[j]
        /\ \A j \in DOMAIN slopes : j > i => slopes[j] > slopes[i]

\* np.argmin, line 171: the first index of the minimum.
ArgMin(slopes) ==
    CHOOSE i \in DOMAIN slopes :
        /\ \A j \in DOMAIN slopes : slopes[i] <= slopes[j]
        /\ \A j \in DOMAIN slopes : j < i => slopes[j] > slopes[i]

\* line 174
BetterSlope(slope, best) == slope < best

\* Mutant: the border is inclusive.
SlopeReached_inclusive(slope, desired) == slope <= desired

\* line 177: lrrt_slope_desired is an exclusive border.
SlopeReached(slope, desired) == slope < desired

\* line 182: candidate_lrs * self.lrrt_decay
DecayLrs(cands) ==
    [i \in DOMAIN cands |-> Lr(cands[i].num * lrrt_decay.num, cands[i].den * lrrt_decay.den)]

\* Mutant: a candidate loads the checkpoint only when lrrt holds no module yet,
\* otherwise it goes on with the module trained last.
LoadCandidate_carried(file, previous) ==
    IF previous = None THEN load_secure(file) ELSE previous[1]

\* line 167: module = torch.load(self.checkpoint_running), for every candidate;
\* previous is the module the local variable held before, if any.
LoadCandidate(file, previous) == load_secure(file)

\* lines 166-167: the module each of the first n candidates of a round starts
\* from; held is what the local variable holds when the round begins.  The module
\* a candidate has trained is what the next candidate finds in the variable.
RECURSIVE CandidateStarts(_, _, _, _)
CandidateStarts(n, file, freeze_pretrained_layers, held) ==
    IF n = 0 THEN <<>>
    ELSE LET before == CandidateStarts(n - 1, file, freeze_pretrained_layers, held)
             previous == IF n = 1 THEN held
                         ELSE Some(DL_train_n_batches(before[n - 1], lrrt_n_batches,
                                                      freeze_pretrained_layers))
         IN  Append(before, LoadCandidate(file, previous))

\* line 164: for decay_it in range(self.lrrt_max_decays + 1); it rounds are behind us.
RoundsLeft(it, max_decays) == it < max_decays + 1

\* The checkpoints on disk when a deep_learning Trainer is used: its constructor
\* writes none, checkpoint_running is the module the caller stored there.
CheckpointsInit ==
    /\ \E w \in Weights : checkpoint_running = save_secure(NewModule(w))
    /\ checkpoint_final \in {NoFile, save_secure(StaleModule)}
    /\ checkpoint_initial \in {NoFile, save_secure(StaleModule)}

LrrtInit ==
    /\ pc = "lrrt"
    /\ caller = "user"
    /\ CheckpointsInit
    /\ freeze_pretrained \in BOOLEAN
    /\ lrrt_slope_desired \in DesiredSlopes
    /\ lrrt_max_decays \in 0..MaxDecays
    /\ decay_it = None /\ candidate_lrs = None /\ lr_best_total = None
    /\ slope_best_total = None /\ slope_desired_found = None
    /\ lrrt_result = None /\ tried = None /\ lrrt_module = None
    /\ module = None /\ epoch = None /\ loss_val_last = None
    /\ returned = None /\ moduleHist = None
    /\ TrainUnused
    /\ EsUnused
    /\ BatchUnused
    /\ DataUnused

\* Trainer.lrrt, lines 159-163.
LrrtStart ==
    /\ pc = "lrrt"
    /\ decay_it' = 0
    /\ candidate_lrs' = lrrt_initial_candidates
    /\ lr_best_total' = Lr(Inf, 1)
    /\ slope_best_total' = Inf
    /\ slope_desired_found' = FALSE
    /\ lrrt_result' = None
    /\ tried' = <<>>
    /\ lrrt_module' = None
    /\ pc' = "lrrt_loop"
    /\ UNCHANGED <<lrrt_slope_desired, lrrt_max_decays, caller, sharedVars, trainVars, esVars>>
    /\ UNCHANGED <<batchVars, dataVars>>

\* Trainer.lrrt, lines 164-182: one round over the candidates.  Every candidate
\* trains its module to some weights; the module of the last candidate is the one
\* the local variable keeps.
LrrtRound ==
    /\ pc = "lrrt_loop"
    /\ RoundsLeft(decay_it, lrrt_max_decays)
    /\ LET n == Len(candidate_lrs)
           held == IF lrrt_module = None THEN None ELSE Some(lrrt_module)
           starts == CandidateStarts(n, checkpoint_running, freeze_pretrained, held)
           trained == DL_train_n_batches(starts[n], lrrt_n_batches, freeze_pretrained)
       IN  IF trained = TypeError
           THEN /\ pc' = "TypeError"
                /\ lrrt_module' = starts[1]
                /\ UNCHANGED <<candidate_lrs, decay_it, lr_best_total, slope_best_total,
                               slope_desired_found, tried>>
           ELSE \E candidate_slopes \in [DOMAIN candidate_lrs -> Slopes], w \in Weights :
                LET best_candidate_slope_id == ArgMin(candidate_slopes)
                    best_candidate_slope == candidate_slopes[best_candidate_slope_id]
                    best_candidate_lr == candidate_lrs[best_candidate_slope_id]
                    better == BetterSlope(best_candidate_slope, slope_best_total)
                    slope_best == IF better THEN best_candidate_slope ELSE slope_best_total
                IN  /\ tried' = tried \o
                           [i \in DOMAIN candidate_lrs |->
                               [lr |-> candidate_lrs[i], slope |-> candidate_slopes[i],
                                round |-> decay_it, start |-> starts[i]]]
                    /\ lrrt_module' = [trained EXCEPT !.weights = w]
                    /\ slope_best_total' = slope_best
                    /\ lr_best_total' = IF better THEN best_candidate_lr ELSE lr_best_total
                    /\ IF SlopeReached(slope_best, lrrt_slope_desired)
                       THEN /\ slope_desired_found' = TRUE
                            /\ pc' = "lrrt_break"
                            /\ UNCHANGED <<candidate_lrs, decay_it>>
                       ELSE /\ candidate_lrs' = DecayLrs(candidate_lrs)
                            /\ decay_it' = decay_it + 1
                            /\ UNCHANGED <<slope_desired_found, pc>>
    /\ UNCHANGED <<lrrt_slope_desired, lrrt_max_decays, lrrt_result, caller,
                   sharedVars, trainVars, esVars>>
    /\ UNCHANGED <<batchVars, dataVars>>

\* Trainer.lrrt, lines 183-186: return lr_best_total, slope_best_total
LrrtReturn ==
    /\ \/ pc = "lrrt_break"
       \/ pc = "lrrt_loop" /\ ~RoundsLeft(decay_it, lrrt_max_decays)
    /\ lrrt_result' = Some([lr |-> lr_best_total, slope |-> slope_best_total])
    /\ pc' = IF caller = "epoch" THEN "es_train" ELSE "lrrt_done"
    /\ UNCHANGED <<lrrt_slope_desired, lrrt_max_decays, decay_it, candidate_lrs,
                   lr_best_total, slope_best_total, slope_desired_found, tried,
                   lrrt_module, caller, sharedVars, trainVars, esVars>>
    /\ UNCHANGED <<batchVars, dataVars>>

LrrtNext == LrrtStart \/ LrrtRound \/ LrrtReturn

SpecLrrt == LrrtInit /\ [][LrrtNext]_vars

\* line 201: for epoch in range(1, max_epochs + 1); e epochs are behind us.
EsLoopContinues(e, n) == e < n

\* line 211
EsImproved(loss_val, last) == loss_val < last

\* line 221: es_violations == self.es_max_violations
EsStopHit(violations, max_violations) == violations = max_violations

\* Mutant: the running checkpoint is written only when the epoch improved.
DL_RunningCheckpoint_on_improvement(improved, m, old) ==
    IF improved THEN save_secure(m) ELSE old

\* lines 212 and 219: torch.save(module, self.checkpoint_running), in the branch of
\* an improvement and in the branch of a violation; old is the file before the epoch.
DL_RunningCheckpoint(improved, m, old) == save_secure(m)

\* The driver runs with TrainerSetup's lrrt_slope_desired and a search of a single
\* round; the rounds of lrrt themselves are checked under SpecLrrt.
EsInit ==
    /\ pc = "es"
    /\ CheckpointsInit
    /\ freeze_pretrained \in BOOLEAN
    /\ max_epochs \in 0..MaxEpochsLrrt
    /\ es_max_violations \in 1..MaxViolations
    /\ lrrt_slope_desired = lrrt_slope_desired_default
    /\ lrrt_max_decays = 0
    /\ es_violations = None /\ lr_best = None /\ valHist = None
    /\ decay_it = None /\ candidate_lrs = None /\ lr_best_total = None
    /\ slope_best_total = None /\ slope_desired_found = None
    /\ lrrt_result = None /\ tried = None /\ lrrt_module = None /\ caller = None
    /\ module = None /\ epoch = None /\ loss_val_last = None
    /\ returned = None /\ moduleHist = None
    /\ TrainUnused
    /\ BatchUnused
    /\ DataUnused

\* train_n_epochs_early_stop_initial_lrrt, lines 197-200.
EsStart ==
    /\ pc = "es"
    /\ LET m == load_secure(checkpoint_running)
       IN  /\ module' = m
           /\ loss_val_last' = DL_losses_epoch_eval(m)[2]
           /\ valHist' = <<DL_losses_epoch_eval(m)[2]>>
           /\ moduleHist' = <<m>>
    /\ es_violations' = 0
    /\ epoch' = 0
    /\ pc' = "es_loop"
    /\ UNCHANGED <<checkpoint_running, checkpoint_final, checkpoint_initial, freeze_pretrained, returned,
                   max_epochs, es_max_violations, lr_best, lrrtVars, trainVars>>
    /\ UNCHANGED <<batchVars, dataVars>>

\* lines 201-203: the head of an epoch, which calls lrrt.
EsEpochLrrt ==
    /\ pc = "es_loop"
    /\ EsLoopContinues(epoch, max_epochs)
    /\ epoch' = epoch + 1
    /\ caller' = "epoch"
    /\ pc' = "lrrt"
    /\ UNCHANGED <<checkpoint_running, checkpoint_final, checkpoint_initial, freeze_pretrained, module,
                   loss_val_last, returned, moduleHist, esVars, trainVars,
                   lrrt_slope_desired, lrrt_max_decays, decay_it, candidate_lrs,
                   lr_best_total, slope_best_total, slope_desired_found, lrrt_result,
                   tried, lrrt_module>>
    /\ UNCHANGED <<batchVars, dataVars>>

\* lines 203-223: the rest of the epoch, from lrrt's result on.  The frame of
\* the lrrt call is gone.
EsEpochTrain ==
    /\ pc = "es_train"
    /\ lr_best' = lrrt_result[1].lr
    /\ LET loaded == load_secure(checkpoint_running)
           t == DL_train_n_batches(loaded, LenLoaderTrain, freeze_pretrained)
       IN  IF t = TypeError
           THEN /\ pc' = "TypeError"
                /\ module' = loaded
                /\ UNCHANGED <<checkpoint_running, checkpoint_final, moduleHist, valHist,
                               loss_val_last, es_violations>>
           ELSE \E w \in Weights :
                LET m == [t EXCEPT !.weights = w]
                    loss_val == DL_losses_epoch_eval(m)[2]
                IN  /\ module' = m
                    /\ moduleHist' = Append(moduleHist, m)
                    /\ valHist' = Append(valHist, loss_val)
                    /\ checkpoint_running' =
                           DL_RunningCheckpoint(EsImproved(loss_val, loss_val_last), m,
                                                checkpoint_running)
                    /\ IF EsImproved(loss_val, loss_val_last)
                       THEN /\ checkpoint_final' = save_secure(m)
                            /\ loss_val_last' = loss_val
                            /\ es_violations' = 0
                            /\ pc' = "es_loop"
                       ELSE /\ es_violations' = es_violations + 1
                            /\ UNCHANGED <<checkpoint_final, loss_val_last>>
                            /\ pc' = IF EsStopHit(es_violations + 1, es_max_violations)
                                     THEN "es_break" ELSE "es_loop"
    /\ decay_it' = None /\ candidate_lrs' = None /\ lr_best_total' = None
    /\ slope_best_total' = None /\ slope_desired_found' = None
    /\ lrrt_result' = None /\ tried' = None /\ lrrt_module' = None /\ caller' = None
    /\ UNCHANGED <<freeze_pretrained, epoch, returned, max_epochs, es_max_violations,
                   checkpoint_initial, lrrt_slope_desired, lrrt_max_decays, trainVars>>
    /\ UNCHANGED <<batchVars, dataVars>>

\* line 224: return torch.load(self.checkpoint_final)
EsReturn ==
    /\ \/ pc = "es_break"
       \/ pc = "es_loop" /\ ~EsLoopContinues(epoch, max_epochs)
    /\ IF FileExists(checkpoint_final)
       THEN /\ returned' = Some(load_secure(checkpoint_final))
            /\ pc' = "es_done"
       ELSE /\ pc' = "FileNotFoundError"
            /\ UNCHANGED returned
    /\ UNCHANGED <<checkpoint_running, checkpoint_final, checkpoint_initial, freeze_pretrained, module, epoch,
                   loss_val_last, moduleHist, esVars, lrrtVars, trainVars>>
    /\ UNCHANGED <<batchVars, dataVars>>

EsNext == EsStart \/ EsEpochLrrt \/ LrrtStart \/ LrrtRound \/ LrrtReturn
              \/ EsEpochTrain \/ EsReturn

SpecEs == EsInit /\ [][EsNext]_vars

\* The two training drivers side by side: a run is one call of Trainer.train
\* (train_test.py) or one call of train_n_epochs_early_stop_initial_lrrt.
DriversInit == TrainInit \/ EsInit

DriversNext == TrainNext \/ EsNext

SpecDrivers == DriversInit /\ [][DriversNext]_vars

-----------------------------------------------------------------------------
(* train_batch of the two trainers, called in any sequence on one module *)

BatchInit ==
    /\ pc = "batches"
    /\ trainer \in {"train_test", "deep_learning"}
    /\ \E w \in Weights : module = NewModule(w)
    /\ freeze_pretrained \in BOOLEAN
    /\ callLog = <<>>
    /\ checkpoint_running = None /\ checkpoint_final = None /\ checkpoint_initial = None
    /\ epoch = None /\ loss_val_last = None /\ returned = None /\ moduleHist = None
    /\ TrainUnused
    /\ LrrtUnused
    /\ EsUnused
    /\ DataUnused

\* train_test.py, Trainer.train_batch, lines 75-85.
TTTrainBatch ==
    /\ pc = "batches"
    /\ trainer = "train_test"
    /\ Len(callLog) < MaxCalls
    /\ \E arg \in BOOLEAN, w \in Weights :
           /\ freeze_pretrained' = arg
           /\ module' = [TT_train_batch(module, arg) EXCEPT !.weights = w]
           /\ callLog' = Append(callLog, arg)
    /\ UNCHANGED <<pc, trainer, checkpoint_running, checkpoint_final, checkpoint_initial, epoch, loss_val_last,
                   returned, moduleHist, trainVars, lrrtVars, esVars, dataVars>>

\* deep_learning.py, Trainer.train_batch, lines 89-100.
DLTrainBatch ==
    /\ pc = "batches"
    /\ trainer = "deep_learning"
    /\ Len(callLog) < MaxCalls
    /\ \E arg \in BOOLEAN, w \in Weights :
           /\ freeze_pretrained' = arg
           /\ module' = [DL_train_batch(module, arg) EXCEPT !.weights = w]
           /\ callLog' = Append(callLog, arg)
    /\ UNCHANGED <<pc, trainer, checkpoint_running, checkpoint_final, checkpoint_initial, epoch, loss_val_last,
                   returned, moduleHist, trainVars, lrrtVars, esVars, dataVars>>

BatchNext == TTTrainBatch \/ DLTrainBatch

SpecBatch == BatchInit /\ [][BatchNext]_vars

-----------------------------------------------------------------------------
(* data_handling.py: ImageClsDataset *)

\* The observations of a dataset of length n, in index order (Python index + 1).
IndexOrder(n) == [i \in 1..n |-> i]

Orders(n) == {o \in [1..n -> 1..n] : \A i, j \in 1..n : o[i] = o[j] => i = j}

\* val_size is the fraction num/den.
ValSizes == {v \in [num : 0..MaxDen, den : 1..MaxDen] : v.num <= v.den}

\* Python floats are IEEE 754 doubles: Precision significant bits, every operation
\* rounded to the nearest double, ties to the even one.  A double x >= 0 is the
\* record [bits, exp] of value bits * 2^exp, bits being Precision binary digits
\* (first one first, which is 1); 0.0 has no digits.  The integers that enter
\* (dataset length, numerator and denominator of val_size) are below 2^LimbWidth.
Precision == 53

LimbWidth == 15

IntWidth == 31

\* More binary places than a quotient of two such integers has zeros in front
\* of its first digit 1.
MaxLeadingZeros == 16

Zero == [bits |-> <<>>, exp |-> 0]

Zeros(k) == [i \in 1..k |-> 0]

StripZeros(bits) ==
    IF \A i \in DOMAIN bits : bits[i] = 0 THEN <<>>
    ELSE LET first == CHOOSE i \in DOMAIN bits :
                          bits[i] = 1 /\ \A j \in 1..(i - 1) : bits[j] = 0
         IN  SubSeq(bits, first, Len(bits))

\* The w binary digits of the natural number x < 2^w.
BitsOf(x, w) == [i \in 1..w |-> (x \div 2^(w - i)) % 2]

\* The binary digits of the natural number x, without leading zeros.
IntBits(x) == StripZeros(BitsOf(x, IntWidth))

\* The natural number of at most IntWidth binary digits.
RECURSIVE BitsInt(_)
BitsInt(bits) ==
    IF bits = <<>> THEN 0
    ELSE 2 * BitsInt(SubSeq(bits, 1, Len(bits) - 1)) + bits[Len(bits)]

\* bits + 1
Increment(bits) ==
    IF \A i \in DOMAIN bits : bits[i] = 1 THEN <<1>> \o Zeros(Len(bits))
    ELSE LET last == CHOOSE i \in DOMAIN bits :
                         bits[i] = 0 /\ \A j \in (i + 1)..Len(bits) : bits[j] = 1
         IN  SubSeq(bits, 1, last - 1) \o <<1>> \o Zeros(Len(bits) - last)

\* The double nearest to bits * 2^exp (bits without leading zeros), ties to even.
Round(bits, exp) ==
    IF bits = <<>> THEN Zero
    ELSE IF Len(bits) <= Precision
    THEN [bits |-> bits \o Zeros(Precision - Len(bits)),
          exp |-> exp - (Precision - Len(bits))]
    ELSE LET kept == SubSeq(bits, 1, Precision)
             dropped == Len(bits) - Precision
             half == bits[Precision + 1] = 1
             more == \E i \in (Precision + 2)..Len(bits) : bits[i] = 1
             up == half /\ (more \/ kept[Precision] = 1)
             r == IF up THEN Increment(kept) ELSE kept
         IN  IF Len(r) > Precision
             THEN [bits |-> SubSeq(r, 1, Precision), exp |-> exp + dropped + 1]
             ELSE [bits |-> r, exp |-> exp + dropped]

\* 2^i modulo den
RECURSIVE PowMod(_, _)
PowMod(i, den) ==
    IF i <= LimbWidth THEN 2^i % den
    ELSE (PowMod(i - LimbWidth, den) * (2^LimbWidth % den)) % den

\* The first k binary places of r / den, for a remainder r < den, and a last digit
\* that is 1 when the places after them are not all 0.
FracBits(r, den, k) ==
    [i \in 1..k |-> IF 2 * ((r * PowMod(i - 1, den)) % den) >= den THEN 1 ELSE 0]
        \o <<IF (r * PowMod(k, den)) % den = 0 THEN 0 ELSE 1>>

\* The float num / den of two integers, 0 <= num and 0 < den: the val_size the
\* caller passes.
FloatOf(num, den) ==
    LET places == Precision + 1 + MaxLeadingZeros
    IN  Round(StripZeros(IntBits(num \div den) \o FracBits(num % den, den, places)),
              0 - (places + 1))

\* 1 - x for a double 0 <= x <= 1.
OneMinus(x) ==
    IF x = Zero THEN Round(<<1>>, 0)
    ELSE LET k == 0 - x.exp
             padded == Zeros(k - Precision) \o x.bits
             complement == [i \in 1..Len(padded) |-> 1 - padded[i]]
         IN  IF k < Precision THEN Zero
             ELSE Round(StripZeros(Increment(complement)), x.exp)

\* The digits of bits in groups of LimbWidth, as numbers.
Limbs(bits) ==
    LET n_limbs == (Len(bits) + LimbWidth - 1) \div LimbWidth
        padded == Zeros(n_limbs * LimbWidth - Len(bits)) \o bits
    IN  [j \in 1..n_limbs |->
            BitsInt(SubSeq(padded, (j - 1) * LimbWidth + 1, j * LimbWidth))]

\* The digits of n * limbs + carry.
RECURSIVE TimesLimbs(_, _, _)
TimesLimbs(limbs, n, carry) ==
    IF limbs = <<>> THEN BitsOf(carry, IntWidth)
    ELSE LET last == Len(limbs)
             t == limbs[last] * n + carry
         IN  TimesLimbs(SubSeq(limbs, 1, last - 1), n, t \div 2^LimbWidth)
                 \o BitsOf(t % 2^LimbWidth, LimbWidth)

\* n * x for an integer n >= 0 and a double x >= 0.
Times(n, x) == Round(StripZeros(TimesLimbs(Limbs(x.bits), n, 0)), x.exp)

\* int(x) for a double 0 <= x < 2^IntWidth: the places after the point are cut off.
IntOf(x) ==
    IF x = Zero THEN 0
    ELSE IF x.exp >= 0 THEN BitsInt(x.bits \o Zeros(x.exp))
    ELSE IF 0 - x.exp >= Precision THEN 0
    ELSE BitsInt(SubSeq(x.bits, 1, Precision + x.exp))

\* line 39: int(len(train_val_dataset) * (1 - val_size))
TrainLen(n, v) == IntOf(Times(n, OneMinus(FloatOf(v.num, v.den))))

\* line 40: int(len(train_val_dataset) * val_size)
ValLen(n, v) == IntOf(Times(n, FloatOf(v.num, v.den)))

\* line 41, torch's random_split: the lengths it accepts for a dataset of length n.
\* Lengths that add up to n are taken as they are.  Lengths that add up to 1 are
\* read as fractions of n by the versions of torch that know fractions, and are
\* rejected by the others; every other pair raises ValueError (Rejected).
Rejected == <<>>

SplitLengths(n, lengths) ==
    IF lengths[1] + lengths[2] = n THEN {lengths}
    ELSE IF lengths[1] + lengths[2] = 1
         THEN {<<n * lengths[1], n * lengths[2]>>, Rejected}
         ELSE {Rejected}

\* A Subset of the dataset object `of`: the observations at `indices`.
Subset(of, indices) == [dataset |-> of, indices |-> indices]

\* DataLoader(dataset, batch_size, shuffle=False, sampler=None): without a sampler
\* the loader draws in index order unless shuffle is set.
DataLoader(dataset, sampler) ==
    [dataset |-> dataset,
     sampler |-> IF sampler = None THEN "SequentialSampler" ELSE sampler[1]]

\* The orders in which one pass over a loader may yield the observations of its dataset.
PassOrders(loader) ==
    IF loader.sampler = "SequentialSampler"
    THEN {IndexOrder(Len(loader.dataset.indices))}
    ELSE Orders(Len(loader.dataset.indices))

DataInit ==
    /\ pc = "data"
    /\ ds_len \in 0..MaxLen
    /\ test_len \in 0..MaxTestLen
    /\ val_size \in ValSizes
    /\ train_len = None /\ val_len = None
    /\ train_dataset = None /\ val_dataset = None /\ test_dataset = None
    /\ transform = None /\ loaders = None /\ lastPass = None
    /\ module = None /\ freeze_pretrained = None
    /\ checkpoint_running = None /\ checkpoint_final = None /\ checkpoint_initial = None
    /\ epoch = None /\ loss_val_last = None /\ returned = None /\ moduleHist = None
    /\ TrainUnused
    /\ LrrtUnused
    /\ EsUnused
    /\ BatchUnused

\* ImageClsDataset.__init__, lines 24-35, with train_val_split, lines 39-41.
Construct ==
    /\ pc = "data"
    /\ train_len' = TrainLen(ds_len, val_size)
    /\ val_len' = ValLen(ds_len, val_size)
    /\ \E accepted \in SplitLengths(ds_len, <<TrainLen(ds_len, val_size),
                                             ValLen(ds_len, val_size)>>) :
         IF accepted = Rejected
         THEN /\ pc' = "ValueError"
              /\ UNCHANGED <<train_dataset, val_dataset, test_dataset, transform>>
         ELSE \E perm \in Orders(ds_len) :
              /\ train_dataset' = Subset("train_val", SubSeq(perm, 1, accepted[1]))
              /\ val_dataset' = Subset("train_val",
                                       SubSeq(perm, accepted[1] + 1, accepted[1] + accepted[2]))
              /\ test_dataset' = Subset("test", IndexOrder(test_len))
              \* lines 27-31: the two parts share the dataset object they were split from
              /\ transform' = [[[[d \in {"train_val", "test"} |-> "None"]
                                    EXCEPT !["train_val"] = "train_trans"]
                                    EXCEPT !["train_val"] = "val_trans"]
                                    EXCEPT !["test"] = "test_trans"]
              /\ pc' = "constructed"
    /\ UNCHANGED <<ds_len, test_len, val_size, loaders, lastPass,
                   sharedVars, trainVars, lrrtVars, esVars, batchVars>>

\* ImageClsDataset.create_loaders, lines 56-62.
CreateLoaders ==
    /\ pc = "constructed"
    /\ loaders' = [train |-> DataLoader(train_dataset, None),
                   val |-> DataLoader(val_dataset, Some("SequentialSampler")),
                   test |-> DataLoader(test_dataset, Some("SequentialSampler"))]
    /\ pc' = "loaders"
    /\ UNCHANGED <<ds_len, test_len, val_size, train_len, val_len, train_dataset,
                   val_dataset, test_dataset, transform, lastPass,
                   sharedVars, trainVars, lrrtVars, esVars, batchVars>>

\* One pass over one of the loaders: each observation comes with the transform of
\* the dataset object it is drawn from.
Pass ==
    /\ pc = "loaders"
    /\ \E which \in {"train", "val", "test"} :
       \E order \in PassOrders(loaders[which]) :
           lastPass' = [loader |-> which,
                        order |-> order,
                        items |-> [i \in DOMAIN order |->
                                     [index |-> loaders[which].dataset.indices[order[i]],
                                      transform |-> transform[loaders[which].dataset.dataset]]]]
    /\ UNCHANGED <<pc, ds_len, test_len, val_size, train_len, val_len, train_dataset,
                   val_dataset, test_dataset, transform, loaders,
                   sharedVars, trainVars, lrrtVars, esVars, batchVars>>

DataNext == Construct \/ CreateLoaders \/ Pass

SpecData == DataInit /\ [][DataNext]_vars

-----------------------------------------------------------------------------
(* Properties of Trainer.train (train_test.py), checked under SpecTrain *)

RECURSIVE MinOfSeq(_)
MinOfSeq(s) ==
    IF Len(s) = 1 THEN s[1]
    ELSE LET rest == MinOfSeq(SubSeq(s, 1, Len(s) - 1))
         IN  IF s[Len(s)] < rest THEN s[Len(s)] ELSE rest

\* The number of epochs at the end of the validation losses s (s[1] is the initial
\* evaluation) that did not improve on the best validation loss before them.
RECURSIVE TrailingViolations(_)
TrailingViolations(s) ==
    IF Len(s) <= 1 THEN 0
    ELSE LET before == SubSeq(s, 1, Len(s) - 1)
         IN  IF s[Len(s)] < MinOfSeq(before) THEN 0 ELSE 1 + TrailingViolations(before)

InLoopOrAfter == pc \in {"loop", "break", "done", "FileNotFoundError"}

EpochsTrained == Len(moduleHist) - 1

\* C1: with early_stopping_max_violations = m >= 1, the violation counter is the
\* number of consecutive epochs without a strict improvement of the best validation
\* loss (reset to 0 by an improving epoch, incremented by every other one), the loop
\* is left as soon as it equals m, and no epoch is trained after it equalled m.
C1_EarlyStopAtMaxViolations ==
    (InLoopOrAfter /\ early_stopping_max_violations # None) =>
        LET m == early_stopping_max_violations[1]
        IN  /\ early_stopping_violations = TrailingViolations(losses_val)
            /\ \A k \in 1..(Len(losses_val) - 1) :
                   TrailingViolations(SubSeq(losses_val, 1, k)) < m
            /\ pc = "loop" => early_stopping_violations < m
            /\ pc = "break" => early_stopping_violations = m
            /\ early_stopping_violations < m /\ pc \in {"done", "FileNotFoundError"}
                   => EpochsTrained = n_epochs

\* Two violations, an improvement between them or not, stop the training early.
C1_Witness ==
    /\ pc = "break"
    /\ early_stopping_max_violations = Some(2)
    /\ early_stopping_violations = 2
    /\ EpochsTrained < n_epochs

\* C2: with early_stopping_max_violations = None the loop is never left early:
\* when train returns, exactly n_epochs epochs were trained and evaluated.
C2_NoEarlyStoppingWithNone ==
    early_stopping_max_violations = None =>
        /\ pc # "break"
        /\ pc \in {"done", "FileNotFoundError"} =>
               /\ EpochsTrained = n_epochs
               /\ Len(stepLrs) = n_epochs
               /\ Len(losses_val) = n_epochs + 1

\* A run without early stopping that returns after several epochs without improvement.
C2_Witness ==
    /\ pc = "done"
    /\ early_stopping_max_violations = None
    /\ n_epochs >= 2
    /\ early_stopping_violations >= 2

Max(a, b) == IF a >= b THEN a ELSE b

\* C9: the updates of epoch e run with learning rate lrs[e-1] (Python index) in
\* every parameter group of the one optimizer, and the call returns only if
\* len(lrs) >= max(1, epochs trained).
C9_OneLearningRatePerEpoch ==
    /\ \A e \in 1..Len(stepLrs) :
           /\ e <= Len(lrs)
           /\ Len(stepLrs[e]) >= 1
           /\ \A g \in DOMAIN stepLrs[e] : stepLrs[e][g] = lrs[e]
    /\ InLoopOrAfter => Len(stepLrs) = EpochsTrained
    /\ pc = "done" => Len(lrs) >= Max(1, EpochsTrained)

\* A returned run of two epochs or more whose first two learning rates differ.
C9_Witness ==
    /\ pc = "done"
    /\ EpochsTrained >= 2
    /\ lrs[1] # lrs[2]

\* C10: the two returned lists have length k + 1 for k <= n_epochs epochs trained;
\* element 0 is the evaluation of the module loaded from checkpoint_running before
\* any training and element i the evaluation of the module after epoch i.
C10_ReturnedLosses ==
    /\ Len(losses_train) = Len(losses_val)
    /\ InLoopOrAfter =>
           /\ Len(losses_val) = EpochsTrained + 1
           /\ EpochsTrained <= n_epochs
           /\ moduleHist[1].steps = 0
           /\ \A i \in 1..Len(losses_val) :
                  /\ moduleHist[i].steps = (i - 1) * LenLoaderTrain
                  /\ losses_train[i] = LossOn("train", moduleHist[i])
                  /\ losses_val[i] = LossOn("val", moduleHist[i])
    /\ pc = "done" =>
           /\ returned[1].losses_train = losses_train
           /\ returned[1].losses_val = losses_val

\* A returned run that stopped early, so that k < n_epochs.
C10_Witness ==
    /\ pc = "done"
    /\ EpochsTrained >= 1
    /\ EpochsTrained < n_epochs
    /\ Len(returned[1].losses_val) = EpochsTrained + 1

-----------------------------------------------------------------------------
(* Properties of Trainer.lrrt (deep_learning.py), checked under SpecLrrt *)

NCandidates == Len(lrrt_initial_candidates)

RoundsRun == Len(tried) \div NCandidates

\* The least slope among the first n candidates tried.
MinSlopeTried(n) ==
    CHOOSE x \in {tried[i].slope : i \in 1..n} : \A i \in 1..n : x <= tried[i].slope

\* The first candidate tried that has the least slope of all.
FirstBestTried ==
    CHOOSE i \in 1..Len(tried) :
        /\ tried[i].slope = MinSlopeTried(Len(tried))
        /\ \A j \in 1..(i - 1) : tried[j].slope # tried[i].slope

RECURSIVE Pow(_, _)
Pow(b, k) == IF k = 0 THEN 1 ELSE b * Pow(b, k - 1)

\* C3: lrrt returns the candidate with the least slope over every candidate tried
\* in every round run, with that slope; of equal slopes the one tried first.
C3_LrrtReturnsSteepest ==
    (pc = "lrrt_done") =>
        /\ Len(tried) >= NCandidates
        /\ lrrt_result[1].slope = tried[FirstBestTried].slope
        /\ lrrt_result[1].lr = tried[FirstBestTried].lr
        /\ \A i \in 1..Len(tried) : lrrt_result[1].slope <= tried[i].slope

\* A finished search whose least slope was met in two rounds and by two candidates
\* of the first round.
C3_Witness ==
    /\ pc = "lrrt_done"
    /\ RoundsRun = 2
    /\ tried[2].slope = MinSlopeTried(Len(tried))
    /\ tried[3].slope = MinSlopeTried(Len(tried))
    /\ tried[1].slope > MinSlopeTried(Len(tried))
    /\ tried[NCandidates + 1].slope = MinSlopeTried(Len(tried))

\* C4: lrrt ends after at most lrrt_max_decays + 1 rounds, round k uses the
\* candidates lrrt_initial_candidates * lrrt_decay^k, and the search stops at the
\* end of the first round after which the best slope so far is strictly below
\* lrrt_slope_desired (an equal slope does not stop it).
C4_LrrtRounds ==
    (pc \in {"lrrt_loop", "lrrt_break", "lrrt_done"}) =>
        /\ Len(tried) = RoundsRun * NCandidates
        /\ RoundsRun <= lrrt_max_decays + 1
        /\ pc = "lrrt_done" \/ ENABLED LrrtNext
        /\ \A i \in 1..Len(tried) :
               LET k == (i - 1) \div NCandidates
                   c == ((i - 1) % NCandidates) + 1
               IN  /\ tried[i].round = k
                   /\ tried[i].lr = Lr(lrrt_initial_candidates[c].num * Pow(lrrt_decay.num, k),
                                       lrrt_initial_candidates[c].den * Pow(lrrt_decay.den, k))
        /\ \A r \in 1..(RoundsRun - 1) :
               ~(MinSlopeTried(r * NCandidates) < lrrt_slope_desired)
        /\ (pc = "lrrt_loop" /\ RoundsRun >= 1) =>
               ~(MinSlopeTried(Len(tried)) < lrrt_slope_desired)
        /\ pc \in {"lrrt_break", "lrrt_done"} =>
               /\ RoundsRun >= 1
               /\ \/ MinSlopeTried(Len(tried)) < lrrt_slope_desired
                  \/ RoundsRun = lrrt_max_decays + 1
               /\ slope_desired_found = (MinSlopeTried(Len(tried)) < lrrt_slope_desired)

\* A search that went on after a round whose best slope equalled the desired one
\* and stopped after the next round, which went strictly below it.
C4_Witness ==
    /\ pc = "lrrt_done"
    /\ RoundsRun = 2
    /\ lrrt_max_decays >= 1
    /\ MinSlopeTried(NCandidates) = lrrt_slope_desired
    /\ MinSlopeTried(Len(tried)) < lrrt_slope_desired
    /\ slope_desired_found

-----------------------------------------------------------------------------
(* Properties of Trainer.train_n_epochs_early_stop_initial_lrrt, under SpecEs *)

EsEpochsTrained == Len(valHist) - 1

\* Epoch e (1..) did not improve on the best validation loss before it.
EsViolation(e) == ~(valHist[e + 1] < MinOfSeq(SubSeq(valHist, 1, e)))

\* C5: the driver stops after one early-stopping violation: the first epoch whose
\* validation loss is not strictly lower than the best so far is the last one trained.
C5_StopsAfterOneViolation ==
    (valHist # None) =>
        \A e \in 1..EsEpochsTrained : EsViolation(e) => EsEpochsTrained = e

-----------------------------------------------------------------------------
(* Properties of train_batch, checked under SpecBatch *)

\* C6: in train_test.py the freeze_pretrained argument of train_batch decides
\* whether the pretrained layers are frozen: a call with True applies the module's
\* freeze operation, a call with False does not, whatever the calls before.
C6_FreezeFollowsArgument ==
    (pc = "batches" /\ trainer = "train_test" /\ Len(callLog) >= 1) =>
        (module.called = "freeze_pretrained") = callLog[Len(callLog)]

-----------------------------------------------------------------------------
(* Properties of ImageClsDataset, checked under SpecData *)

\* C7: create_loaders returns a random train loader and sequential validation and
\* test loaders: a pass over the validation or the test loader yields the
\* observations in index order, a pass over the train loader yields them in any
\* order.
C7_TrainRandomOthersSequential ==
    (pc = "loaders") =>
        /\ PassOrders(loaders.val) = {IndexOrder(Len(val_dataset.indices))}
        /\ PassOrders(loaders.test) = {IndexOrder(Len(test_dataset.indices))}
        /\ PassOrders(loaders.train) = Orders(Len(train_dataset.indices))

\* C8: for every dataset length and every val_size in [0, 1] the two computed
\* lengths add up to the length of the dataset, and the split is accepted.
C8_SplitLengthsCoverDataset ==
    (pc # "data") =>
        /\ train_len + val_len = ds_len
        /\ pc # "ValueError"

-----------------------------------------------------------------------------
(* Checkpoints of Trainer.train (train_test.py), checked under SpecTrain *)

\* The evaluations (indices of losses_val) that were strictly below every one before.
ImprovingEvals ==
    {i \in 2..Len(losses_val) : losses_val[i] < MinOfSeq(SubSeq(losses_val, 1, i - 1))}

LastImprovingEval == CHOOSE i \in ImprovingEvals : \A j \in ImprovingEvals : j <= i

\* C11: train returns the content of checkpoint_final, which is written in exactly
\* the epochs whose validation loss is strictly below every earlier one; so the
\* module returned is one evaluated during the call and has the least validation
\* loss of all of them, also when no epoch improved on the initial evaluation.
C11_ReturnsBestEvaluated ==
    /\ InLoopOrAfter /\ ImprovingEvals # {} =>
           checkpoint_final = save_secure(moduleHist[LastImprovingEval])
    /\ pc = "done" =>
           /\ returned[1].module = load_secure(checkpoint_final)
           /\ \E i \in 1..Len(moduleHist) : returned[1].module = moduleHist[i]
           /\ LossOn("val", returned[1].module) = MinOfSeq(losses_val)

\* C12: after __init__ every dataset applies its own transform: observations of
\* train_dataset are transformed with train_trans, those of val_dataset with
\* val_trans and those of test_dataset with test_trans.
C12_OwnTransforms ==
    (pc \in {"constructed", "loaders"}) =>
        /\ \A i \in DOMAIN train_dataset.indices :
               transform[train_dataset.dataset] = "train_trans"
        /\ \A i \in DOMAIN val_dataset.indices :
               transform[val_dataset.dataset] = "val_trans"
        /\ \A i \in DOMAIN test_dataset.indices :
               transform[test_dataset.dataset] = "test_trans"

-----------------------------------------------------------------------------
(* Checkpoints of Trainer.lrrt (deep_learning.py), checked under SpecLrrt *)

\* C13: lrrt writes no checkpoint and isolates its candidates: every candidate of
\* every round starts from the module checkpoint_running held when lrrt was called,
\* and checkpoint_running, checkpoint_final and checkpoint_initial hold after the
\* call what they held before it.
C13_LrrtLeavesCheckpoints ==
    /\ [](pc \in {"lrrt_loop", "lrrt_break", "lrrt_done"} =>
              \A i \in 1..Len(tried) : tried[i].start = load_secure(checkpoint_running))
    /\ [][UNCHANGED <<checkpoint_running, checkpoint_final, checkpoint_initial>>]_vars

\* A finished search of two rounds, with checkpoints of an earlier run on disk.
C13_Witness ==
    /\ pc = "lrrt_done"
    /\ RoundsRun = 2
    /\ checkpoint_final # NoFile
    /\ checkpoint_initial # NoFile
    /\ lrrt_module.steps > load_secure(checkpoint_running).steps
    /\ lrrt_module.weights # load_secure(checkpoint_running).weights

-----------------------------------------------------------------------------
(* The running checkpoint of both drivers, checked under SpecDrivers *)

\* The module at the end of the last completed epoch (before any epoch: the module
\* the driver loaded).
LastEpochEnd == moduleHist[Len(moduleHist)]

\* C14: in Trainer.train and in train_n_epochs_early_stop_initial_lrrt,
\* checkpoint_running holds after every completed epoch the module at the end of
\* that epoch, improved or not; so in train_n_epochs_early_stop_initial_lrrt every
\* epoch, and every candidate of its lrrt, starts from the end of the epoch before,
\* also when that epoch was a violation.
C14_RunningCheckpointFollowsEpochs ==
    /\ Len(moduleHist) >= 1 => checkpoint_running = save_secure(LastEpochEnd)
    /\ Len(valHist) >= 1 =>
           /\ \A e \in 1..EsEpochsTrained :
                  moduleHist[e + 1].steps = moduleHist[e].steps + LenLoaderTrain
           /\ \A j \in 1..Len(tried) : tried[j].start = LastEpochEnd

\* train_n_epochs_early_stop_initial_lrrt went on after an epoch that was a
\* violation: the lrrt of the second epoch has tried its candidates, each from the
\* end of the first epoch, which checkpoint_final does not hold.
C14_Witness ==
    /\ pc = "es_train"
    /\ Len(valHist) = 2
    /\ EsViolation(1)
    /\ Len(tried) >= 1
    /\ tried[1].start.steps = LenLoaderTrain
    /\ checkpoint_final # checkpoint_running

=============================================================================
